---- MODULE Spec2Model ----
(***************************************************************************)
(* rsimg: batch image resizer (src/src/main.rs).                           *)
(*                                                                         *)
(* One behaviour of the model is one invocation of the program: main       *)
(* checks the source path, parses the option string piece by piece,        *)
(* dispatches on the task, resize() selects the filter and the size mode,  *)
(* and process_directory walks the tree calling the executor on every      *)
(* matching file.  A panic ends the run with pc = "panic" and err set.     *)
(*                                                                         *)
(* Strings are sequences of one-character strings, so that split, parse,   *)
(* ends_with and extension are computed as the code computes them.         *)
(* u32 values are pairs of 16-bit limbs [hi, lo]; f32 values are           *)
(* [neg, m, e] standing for (-1)^neg * m * 2^e with m odd or zero.         *)
(***************************************************************************)
EXTENDS Integers, Sequences, FiniteSets, TLC

\* ------------------------------------------------------------------ bounds
\* longest size value enumerated exhaustively over SizeAlphabet
MaxSizeLen == 4
\* most digits of an enumerated percentage
MaxPctDigits == 3
\* most regular files directly under the source directory
MaxRootFiles == 2
\* most pieces in an enumerated option string
MaxPieces == 2

\* ----------------------------------------------------------------- strings
Digits == <<"0", "1", "2", "3", "4", "5", "6", "7", "8", "9">>

IsDigit(c) == \E i \in 1..10 : Digits[i] = c

DigitVal(c) == (CHOOSE i \in 1..10 : Digits[i] = c) - 1

\* str::split(sep): the pieces between separators; always at least one piece
RECURSIVE SplitAcc(_, _, _, _)
SplitAcc(s, sep, cur, acc) ==
    IF s = <<>> THEN Append(acc, cur)
    ELSE IF Head(s) = sep THEN SplitAcc(Tail(s), sep, <<>>, Append(acc, cur))
    ELSE SplitAcc(Tail(s), sep, Append(cur, Head(s)), acc)

Split(s, sep) == SplitAcc(s, sep, <<>>, <<>>)

\* str::ends_with for a one-character suffix
EndsWith(s, c) == Len(s) > 0 /\ s[Len(s)] = c

\* str::strip_suffix for a one-character suffix (caller has checked EndsWith)
StripSuffix(s) == SubSeq(s, 1, Len(s) - 1)

\* ------------------------------------------------------------------- u32
Limb == 65536

U32(v) == [hi |-> v \div Limb, lo |-> v % Limb]

U32Zero == U32(0)

\* checked result * 10 + d on limbs; ok = FALSE on overflow past 2^32 - 1
MulAdd10(v, d) ==
    LET lo2 == v.lo * 10 + d
        hi2 == v.hi * 10 + (lo2 \div Limb)
    IN  [ok |-> hi2 < Limb, hi |-> hi2 % Limb, lo |-> lo2 % Limb]

RECURSIVE ParseDigits(_, _)
ParseDigits(s, acc) ==
    IF s = <<>> THEN [ok |-> TRUE, hi |-> acc.hi, lo |-> acc.lo]
    ELSE IF ~IsDigit(Head(s)) THEN [ok |-> FALSE, hi |-> 0, lo |-> 0]
    ELSE LET n == MulAdd10(acc, DigitVal(Head(s)))
         IN  IF ~n.ok THEN [ok |-> FALSE, hi |-> 0, lo |-> 0]
             ELSE ParseDigits(Tail(s), [hi |-> n.hi, lo |-> n.lo])

\* <u32 as FromStr>::from_str: optional '+', then one or more digits
ParseU32(s) ==
    LET body == IF Len(s) > 0 /\ Head(s) = "+" THEN Tail(s) ELSE s
    IN  IF body = <<>> THEN [ok |-> FALSE, hi |-> 0, lo |-> 0]
        ELSE ParseDigits(body, U32Zero)

\* ------------------------------------------------------------------- f32
RECURSIVE Pow2(_)
Pow2(k) == IF k = 0 THEN 1 ELSE 2 * Pow2(k - 1)

\* number of significant bits of n
RECURSIVE Bits(_)
Bits(n) == IF n = 0 THEN 0 ELSE 1 + Bits(n \div 2)

\* the unique representation of m * 2^e with m odd (or zero)
RECURSIVE Canon(_, _, _)
Canon(neg, m, e) ==
    IF m = 0 THEN [neg |-> neg, m |-> 0, e |-> 0]
    ELSE IF m % 2 = 0 THEN Canon(neg, m \div 2, e + 1)
    ELSE [neg |-> neg, m |-> m, e |-> e]

\* round-half-to-even of q + r/d to an integer
RoundHalfEven(q, r, d) ==
    IF 2 * r > d \/ (2 * r = d /\ q % 2 = 1) THEN q + 1 ELSE q

\* p * 2^e rounded to a 24-bit significand (IEEE-754 binary32, nearest-even)
RoundTo24(neg, p, e) ==
    IF p < Pow2(24) THEN Canon(neg, p, e)
    ELSE LET s == Bits(p) - 24
             d == Pow2(s)
         IN  Canon(neg, RoundHalfEven(p \div d, p % d, d), e + s)

\* `v as f32` for a u32 v
F32FromU32(v) ==
    IF v.hi < Pow2(15) THEN RoundTo24(FALSE, v.hi * Limb + v.lo, 0)
    ELSE Canon(FALSE, RoundHalfEven(v.hi * 256 + v.lo \div 256, v.lo % 256, 256), 8)

\* least k with (m * 2^k) \div d of 24 bits
RECURSIVE DivShift(_, _, _)
DivShift(m, d, k) ==
    IF (m * Pow2(k)) \div d >= Pow2(23) THEN k ELSE DivShift(m, d, k + 1)

\* x / y in f32, y # 0
F32Div(x, y) ==
    IF x.m = 0 THEN [neg |-> x.neg # y.neg, m |-> 0, e |-> 0]
    ELSE LET k == DivShift(x.m, y.m, 0)
             n == x.m * Pow2(k)
         IN  Canon(x.neg # y.neg, RoundHalfEven(n \div y.m, n % y.m, y.m),
                   x.e - k - y.e)

\* x * y in f32
F32Mul(x, y) ==
    IF x.m = 0 \/ y.m = 0 THEN [neg |-> x.neg # y.neg, m |-> 0, e |-> 0]
    ELSE RoundTo24(x.neg # y.neg, x.m * y.m, x.e + y.e)

U32Max == [hi |-> Limb - 1, lo |-> Limb - 1]

\* `x as u32`: truncates toward zero and saturates at 0 and u32::MAX
F32ToU32(x) ==
    IF x.neg \/ x.m = 0 THEN U32Zero
    ELSE IF x.e < 0 THEN
        (IF -x.e >= 24 THEN U32Zero ELSE U32(x.m \div Pow2(-x.e)))
    ELSE IF Bits(x.m) + x.e > 32 THEN U32Max
    ELSE IF x.e >= 16 THEN [hi |-> x.m * Pow2(x.e - 16), lo |-> 0]
    ELSE [hi |-> x.m \div Pow2(16 - x.e),
          lo |-> (x.m % Pow2(16 - x.e)) * Pow2(x.e)]

F32Zero == [neg |-> FALSE, m |-> 0, e |-> 0]

F32Hundred == Canon(FALSE, 100, 0)

\* <f32 as FromStr>::from_str on a signed decimal integer literal below 2^32,
\* rounded to the nearest f32.  Literals with a fraction, an exponent, or the
\* words inf/nan use characters outside SizeAlphabet and PctAlphabet, and
\* longer numerals are beyond the enumerated lengths.
ParseF32(s) ==
    LET signed == Len(s) > 0 /\ (Head(s) = "+" \/ Head(s) = "-")
        body   == IF signed THEN Tail(s) ELSE s
        n      == ParseDigits(body, U32Zero)
    IN  IF body = <<>> \/ ~n.ok THEN [ok |-> FALSE, val |-> F32Zero]
        ELSE LET f == F32FromU32([hi |-> n.hi, lo |-> n.lo])
             IN  [ok |-> TRUE,
                  val |-> [neg |-> signed /\ Head(s) = "-", m |-> f.m, e |-> f.e]]

\* ------------------------------------------------------------ file names
APng  == <<"a", ".", "p", "n", "g">>
CJpg  == <<"c", ".", "j", "p", "g">>
DJpeg == <<"d", ".", "j", "p", "e", "g">>
BTxt  == <<"b", ".", "t", "x", "t">>
EPNG  == <<"e", ".", "P", "N", "G">>
NoExt == <<"f">>
DotPng == <<".", "p", "n", "g">>
SubDir == <<"s">>
DirPng == <<"g", ".", "p", "n", "g">>

FileNames == {APng, CJpg, DJpeg, BTxt, EPNG, NoExt, DotPng}

DirNames == {SubDir, DirPng}

\* index of the last '.' of a name, 0 when there is none
RECURSIVE LastDot(_, _)
LastDot(name, i) ==
    IF i = 0 THEN 0 ELSE IF name[i] = "." THEN i ELSE LastDot(name, i - 1)

\* Path::extension on the final component: the part after the last '.', none
\* when there is no '.' or the only '.' is the first character
Extension(name) ==
    LET d == LastDot(name, Len(name))
    IN  IF d <= 1 THEN [some |-> FALSE, ext |-> <<>>]
        ELSE [some |-> TRUE, ext |-> SubSeq(name, d + 1, Len(name))]

\* IsImageExtension matching PNG as well
IsImageExtensionAnyCase(ext) ==
    \/ ext = <<"p", "n", "g">>
    \/ ext = <<"P", "N", "G">>
    \/ ext = <<"j", "p", "g">>
    \/ ext = <<"j", "p", "e", "g">>

\* extension == "png" || extension == "jpg" || extension == "jpeg"
IsImageExtension(ext) ==
    \/ ext = <<"p", "n", "g">>
    \/ ext = <<"j", "p", "g">>
    \/ ext = <<"j", "p", "e", "g">>

\* ------------------------------------------------------------ file system
\* a path is the sequence of components below the source directory
DirEntry == [kind |-> "dir", tag |-> "dir", w |-> U32Zero, h |-> U32Zero,
             filter |-> "none"]

FileEntry(dims) == [kind |-> "file", tag |-> "orig", w |-> U32(dims[1]),
                    h |-> U32(dims[2]), filter |-> "none"]

\* the source directory with rootFiles, and below it dir/ holding subFile and
\* dir/s/ holding deepFile
Tree(rootFiles, dir, subFile, deepFile, dims) ==
    LET files == {<<f>> : f \in rootFiles}
                    \cup {<<dir, subFile>>, <<dir, SubDir, deepFile>>}
        dirs  == {<<>>, <<dir>>, <<dir, SubDir>>}
    IN  [p \in files \cup dirs |->
            IF p \in dirs THEN DirEntry ELSE FileEntry(dims)]

Children(f, p) ==
    {q \in DOMAIN f : Len(q) = Len(p) + 1 /\ SubSeq(q, 1, Len(p)) = p}

FileName(p) == p[Len(p)]

\* all orders in which read_dir may list a set of entries
RECURSIVE Orders(_)
Orders(S) ==
    IF S = {} THEN {<<>>}
    ELSE UNION {{<<x>> \o t : t \in Orders(S \ {x})} : x \in S}

\* ---------------------------------------------------------------- options
KeySize == <<"s", "i", "z", "e">>
KeyFilter == <<"f", "i", "l", "t", "e", "r">>

VDefault  == <<"d", "e", "f", "a", "u", "l", "t">>
VNearest  == <<"n", "e", "a", "r", "e", "s", "t">>
VLinear   == <<"l", "i", "n", "e", "a", "r">>
VCubic    == <<"c", "u", "b", "i", "c">>
VGaussian == <<"g", "a", "u", "s", "s", "i", "a", "n">>
VLanczos3 == <<"l", "a", "n", "c", "z", "o", "s", "3">>

\* HashMap::insert: a later value for the same key replaces the earlier one
MapInsert(m, k, v) == [x \in DOMAIN m \cup {k} |-> IF x = k THEN v ELSE m[x]]

EmptyMap == [x \in {} |-> <<>>]

\* FilterOf without the arm for linear
FilterOfNoLinear(v) ==
    CASE v = VDefault  -> "CatmullRom"
      [] v = VNearest  -> "Nearest"
      [] v = VCubic    -> "CatmullRom"
      [] v = VGaussian -> "Gaussian"
      [] v = VLanczos3 -> "Lanczos3"
      [] OTHER         -> "CatmullRom"

\* the match on the filter value in resize()
FilterOf(v) ==
    CASE v = VDefault  -> "CatmullRom"
      [] v = VNearest  -> "Nearest"
      [] v = VLinear   -> "Triangle"
      [] v = VCubic    -> "CatmullRom"
      [] v = VGaussian -> "Gaussian"
      [] v = VLanczos3 -> "Lanczos3"
      [] OTHER         -> "CatmullRom"

SelectFilter(m) ==
    IF KeyFilter \in DOMAIN m THEN FilterOf(m[KeyFilter]) ELSE "CatmullRom"

NoSize == [width |-> U32Zero, height |-> U32Zero, scale |-> F32Zero]

Failed(e) == [status |-> e, executor |-> "none", size |-> NoSize]

\* ParseSizeValue with width and height taken from the wrong tokens
ParseSizeValueSwapped(size_value) ==
    LET size == Split(size_value, "x")
    IN  IF Len(size) # 2 /\ EndsWith(size_value, "%")
        THEN LET percentage == ParseF32(StripSuffix(size_value))
             IN  IF ~percentage.ok THEN Failed("ParseFloatError")
                 ELSE [status |-> "ok", executor |-> "resize_by_scale",
                       size |-> [width |-> U32Zero, height |-> U32Zero,
                                 scale |-> F32Div(percentage.val, F32Hundred)]]
        ELSE LET width == ParseU32(size[1])
             IN  IF ~width.ok THEN Failed("ParseIntError")
                 ELSE IF Len(size) < 2 THEN Failed("IndexOutOfBounds")
                 ELSE LET height == ParseU32(size[2])
                      IN  IF ~height.ok THEN Failed("ParseIntError")
                          ELSE [status |-> "ok", executor |-> "resize_by_size",
                                size |-> [width |-> [hi |-> height.hi, lo |-> height.lo],
                                          height |-> [hi |-> width.hi, lo |-> width.lo],
                                          scale |-> F32Zero]]

\* resize(), lines 114-149: which executor process_directory is given and
\* with which SizeArgs, or the panic that ends the run
ParseSizeValue(size_value) ==
    LET size == Split(size_value, "x")
    IN  IF Len(size) # 2 /\ EndsWith(size_value, "%")
        THEN LET percentage == ParseF32(StripSuffix(size_value))
             IN  IF ~percentage.ok THEN Failed("ParseFloatError")
                 ELSE [status |-> "ok", executor |-> "resize_by_scale",
                       size |-> [width |-> U32Zero, height |-> U32Zero,
                                 scale |-> F32Div(percentage.val, F32Hundred)]]
        ELSE LET width == ParseU32(size[1])
             IN  IF ~width.ok THEN Failed("ParseIntError")
                 ELSE IF Len(size) < 2 THEN Failed("IndexOutOfBounds")
                 ELSE LET height == ParseU32(size[2])
                      IN  IF ~height.ok THEN Failed("ParseIntError")
                          ELSE [status |-> "ok", executor |-> "resize_by_size",
                                size |-> [width |-> [hi |-> width.hi, lo |-> width.lo],
                                          height |-> [hi |-> height.hi, lo |-> height.lo],
                                          scale |-> F32Zero]]

\* ParseSize falling back to the default of the command line, 128x128
ParseSizeDefaulted(m) ==
    IF KeySize \notin DOMAIN m
    THEN ParseSizeValue(<<"1", "2", "8", "x", "1", "2", "8">>)
    ELSE ParseSizeValue(m[KeySize])

\* resize(), lines 107-113: the size option is required
ParseSize(m) ==
    IF KeySize \notin DOMAIN m THEN Failed("MissingSize")
    ELSE ParseSizeValue(m[KeySize])

\* ScaledDim rounding up instead of truncating
ScaledDimCeil(d, scale) ==
    LET p == F32Mul(F32FromU32(d), scale)
        t == F32ToU32(p)
    IN  IF p.m # 0 /\ ~p.neg /\ p.e < 0 THEN U32(t.hi * Limb + t.lo + 1) ELSE t

\* new dimensions computed by resize_by_scale from the decoded dimensions
ScaledDim(d, scale) == F32ToU32(F32Mul(F32FromU32(d), scale))

\* ------------------------------------------------------------------ state
VARIABLES
    source_is_dir,  \* whether cli.source_path is a directory
    task,           \* cli.task
    options,        \* cli.options, the raw option string
    fs0,            \* the tree under the source path when the run starts
    fs,             \* the tree under the source path now
    pc,             \* "main", "options", "resize", "walk", "done", "panic"
    err,            \* the panic that ended the run, "none" otherwise
    dir_checked,    \* the is_dir() check of main has been made
    opt_i,          \* index of the next option piece of the loop in main
    options_map,    \* the HashMap built by main
    filter,         \* FilterType handed to process_directory
    size,           \* SizeArgs handed to process_directory
    executor,       \* the fn pointer handed to process_directory
    stack,          \* entries WalkDir has still to yield, next first
    calls           \* executor invocations so far, in order

vars == <<source_is_dir, task, options, fs0, fs, pc, err, dir_checked, opt_i,
          options_map, filter, size, executor, stack, calls>>

inputs == <<source_is_dir, task, options, fs0>>

Pieces == Split(options, ",")

Panic(e) == pc' = "panic" /\ err' = e

\* CheckSource without the panic
CheckSourceUnchecked ==
    /\ pc = "main"
    /\ dir_checked' = TRUE
    /\ pc' = "options"
    /\ UNCHANGED <<inputs, fs, err, opt_i, options_map, filter, size, executor,
                   stack, calls>>

\* main, lines 167-170
CheckSource ==
    /\ pc = "main"
    /\ dir_checked' = TRUE
    /\ IF ~source_is_dir THEN Panic("NotADirectory")
       ELSE pc' = "options" /\ err' = err
    /\ UNCHANGED <<inputs, fs, opt_i, options_map, filter, size, executor,
                   stack, calls>>

\* InvalidOption without the check for an empty value
InvalidOptionValueUnchecked(option) ==
    \/ Len(option) # 2
    \/ option[1] = <<>>

\* the three checks of lines 179-189 on a piece split on '='
InvalidOption(option) ==
    \/ Len(option) # 2
    \/ option[1] = <<>>
    \/ option[2] = <<>>

\* main, lines 177-191: one iteration of the loop over the pieces
ParseOption ==
    /\ pc = "options"
    /\ opt_i <= Len(Pieces)
    /\ LET option == Split(Pieces[opt_i], "=")
       IN  IF InvalidOption(option) THEN
               Panic("InvalidOption") /\ UNCHANGED <<opt_i, options_map>>
           ELSE /\ options_map' = MapInsert(options_map, option[1], option[2])
                /\ opt_i' = opt_i + 1
                /\ UNCHANGED <<pc, err>>
    /\ UNCHANGED <<inputs, fs, dir_checked, filter, size, executor, stack, calls>>

\* DispatchTask calling resize for every task
DispatchAnyTask ==
    /\ pc = "options"
    /\ opt_i > Len(Pieces)
    /\ pc' = "resize"
    /\ UNCHANGED <<inputs, fs, err, dir_checked, opt_i, options_map, filter,
                   size, executor, stack, calls>>

\* main, lines 193-197
DispatchTask ==
    /\ pc = "options"
    /\ opt_i > Len(Pieces)
    /\ pc' = IF task = "resize" THEN "resize" ELSE "done"
    /\ UNCHANGED <<inputs, fs, err, dir_checked, opt_i, options_map, filter,
                   size, executor, stack, calls>>

\* resize(), up to the call of process_directory
Resize ==
    /\ pc = "resize"
    /\ LET cfg == ParseSize(options_map)
       IN  IF cfg.status # "ok" THEN
               Panic(cfg.status) /\ UNCHANGED <<filter, size, executor, stack>>
           ELSE /\ filter' = SelectFilter(options_map)
                /\ size' = cfg.size
                /\ executor' = cfg.executor
                /\ stack' = << <<>> >>
                /\ pc' = "walk"
                /\ err' = err
    /\ UNCHANGED <<inputs, fs, dir_checked, opt_i, options_map, calls>>

Walking == pc = "walk" /\ stack # <<>>

\* entry.unwrap() on an entry WalkDir could not read
WalkError ==
    /\ Walking
    /\ Panic("WalkError")
    /\ UNCHANGED <<inputs, fs, dir_checked, opt_i, options_map, filter, size,
                   executor, stack, calls>>

\* a directory: is_file() is false; WalkDir descends into it next
VisitDirectory ==
    /\ Walking
    /\ fs[Head(stack)].kind = "dir"
    /\ \E order \in Orders(Children(fs, Head(stack))) :
           stack' = order \o Tail(stack)
    /\ UNCHANGED <<inputs, fs, pc, err, dir_checked, opt_i, options_map,
                   filter, size, executor, calls>>

Matches(p) ==
    /\ fs[p].kind = "file"
    /\ Extension(FileName(p)).some
    /\ IsImageExtension(Extension(FileName(p)).ext)

\* a file whose extension is missing or is not png, jpg or jpeg
SkipFile ==
    /\ Walking
    /\ fs[Head(stack)].kind = "file"
    /\ ~Matches(Head(stack))
    /\ stack' = Tail(stack)
    /\ UNCHANGED <<inputs, fs, pc, err, dir_checked, opt_i, options_map,
                   filter, size, executor, calls>>

Outcomes == {"ok", "open_failed", "save_failed"}

Call(op, p, w, h, o) ==
    [op |-> op, path |-> p, args |-> size, filter |-> filter,
     width |-> w, height |-> h, outcome |-> o]

Resized(w, h) ==
    [kind |-> "file", tag |-> "resized", w |-> w, h |-> h, filter |-> filter]

Truncated == [kind |-> "file", tag |-> "truncated", w |-> U32Zero,
              h |-> U32Zero, filter |-> "none"]

\* Execute going on to the next entry after a failure
ExecuteIsolated(op, p, w, h) ==
    \E o \in Outcomes :
        /\ calls' = Append(calls, Call(op, p, w, h, o))
        /\ stack' = Tail(stack)
        /\ UNCHANGED <<pc, err>>
        /\ CASE o = "ok" -> fs' = [fs EXCEPT ![p] = Resized(w, h)]
             [] o = "open_failed" -> fs' = fs
             [] o = "save_failed" -> fs' \in {fs, [fs EXCEPT ![p] = Truncated]}

\* open, resize to (w, h), save over the same path; unwrap() on each result
Execute(op, p, w, h) ==
    \E o \in Outcomes :
        /\ calls' = Append(calls, Call(op, p, w, h, o))
        /\ CASE o = "ok" ->
                  /\ fs' = [fs EXCEPT ![p] = Resized(w, h)]
                  /\ stack' = Tail(stack)
                  /\ UNCHANGED <<pc, err>>
             [] o = "open_failed" ->
                  /\ Panic("ImageError")
                  /\ UNCHANGED <<fs, stack>>
             [] o = "save_failed" ->
                  /\ Panic("ImageError")
                  /\ fs' \in {fs, [fs EXCEPT ![p] = Truncated]}
                  /\ UNCHANGED stack

\* executor = the closure of line 151 calling resize_by_size
ResizeBySize ==
    /\ Walking
    /\ Matches(Head(stack))
    /\ executor = "resize_by_size"
    /\ Execute("resize_by_size", Head(stack), size.width, size.height)
    /\ UNCHANGED <<inputs, dir_checked, opt_i, options_map, filter, size, executor>>

\* executor = the closure of line 134 calling resize_by_scale
ResizeByScale ==
    /\ Walking
    /\ Matches(Head(stack))
    /\ executor = "resize_by_scale"
    /\ Execute("resize_by_scale", Head(stack),
               ScaledDim(fs[Head(stack)].w, size.scale),
               ScaledDim(fs[Head(stack)].h, size.scale))
    /\ UNCHANGED <<inputs, dir_checked, opt_i, options_map, filter, size, executor>>

\* the walk is exhausted: process_directory, resize and main return
WalkDone ==
    /\ pc = "walk"
    /\ stack = <<>>
    /\ pc' = "done"
    /\ UNCHANGED <<inputs, fs, err, dir_checked, opt_i, options_map, filter,
                   size, executor, stack, calls>>

Next ==
    \/ CheckSource
    \/ ParseOption
    \/ DispatchTask
    \/ Resize
    \/ WalkError
    \/ VisitDirectory
    \/ SkipFile
    \/ ResizeBySize
    \/ ResizeByScale
    \/ WalkDone

\* ------------------------------------------------------------------ inputs
\* the state after CLI::parse() for a given command line and directory tree
Start(isDir, t, o, tree) ==
    /\ source_is_dir = isDir
    /\ task = t
    /\ options = o
    /\ fs0 = tree
    /\ fs = tree
    /\ pc = "main"
    /\ err = "none"
    /\ dir_checked = FALSE
    /\ opt_i = 1
    /\ options_map = EmptyMap
    /\ filter = "CatmullRom"
    /\ size = NoSize
    /\ executor = "none"
    /\ stack = <<>>
    /\ calls = <<>>

\* all strings of length 1..n over an alphabet
Strings(alphabet, n) == UNION {[1..k -> alphabet] : k \in 1..n}

RECURSIVE Join(_)
Join(ps) ==
    IF Len(ps) = 1 THEN ps[1] ELSE ps[1] \o <<",">> \o Join(Tail(ps))

SizePiece(v) == KeySize \o <<"=">> \o v

FilterPiece(v) == KeyFilter \o <<"=">> \o v

DefaultDims == <<100, 60>>

DefaultTree == Tree({APng, BTxt}, DirPng, CJpg, DJpeg, DefaultDims)

\* --- size values: every string over SizeAlphabet, and the u32 boundary
SizeAlphabet == {"0", "1", "2", "x", "%", "a"}

MaxU32x1 == <<"4", "2", "9", "4", "9", "6", "7", "2", "9", "5", "x", "1">>
OverU32x1 == <<"4", "2", "9", "4", "9", "6", "7", "2", "9", "6", "x", "1">>
Plus1x02 == <<"+", "1", "x", "0", "2">>
Minus1Pct == <<"-", "1", "%">>

SizeValues ==
    Strings(SizeAlphabet, MaxSizeLen) \cup {MaxU32x1, OverU32x1, Plus1x02, Minus1Pct}

InitSize ==
    \E v \in SizeValues, withFilter \in BOOLEAN :
        Start(TRUE, "resize",
              IF withFilter THEN Join(<<FilterPiece(VNearest), SizePiece(v)>>)
              ELSE SizePiece(v),
              DefaultTree)

SpecSize == InitSize /\ [][Next]_vars

\* --- option strings: up to MaxPieces pieces, well-formed or not
OptionPieces ==
    {SizePiece(v) : v \in {<<"2", "x", "3">>, <<"5", "0", "%">>,
                           <<"1", "x", "2", "x", "3">>, <<"a", "b">>}}
    \cup {FilterPiece(v) : v \in {VDefault, VNearest, VLinear, VCubic, VGaussian,
                                  VLanczos3, <<"b", "o", "x">>}}
    \cup {KeySize, <<>>, <<"a", "=">>, <<"=", "b">>, <<"a", "=", "b", "=", "c">>,
          <<"q", "=", "1">>}

OptionStrings == {Join(ps) : ps \in Strings(OptionPieces, MaxPieces)}

Tasks == {"resize", "convert", ""}

Init ==
    \E isDir \in BOOLEAN, t \in Tasks, o \in OptionStrings :
        Start(isDir, t, o, DefaultTree)

Spec == Init /\ [][Next]_vars

\* --- directory trees
WalkOptions ==
    {Join(<<SizePiece(<<"2", "x", "3">>), FilterPiece(VGaussian)>>),
     SizePiece(<<"5", "0", "%">>)}

RootFileSets == {S \in SUBSET FileNames : Cardinality(S) <= MaxRootFiles}

InitWalk ==
    \E o \in WalkOptions, S \in RootFileSets, d \in DirNames, f \in FileNames :
        Start(TRUE, "resize", o, Tree(S, d, f, APng, DefaultDims))

SpecWalk == InitWalk /\ [][Next]_vars

\* --- percentages and native dimensions
PctAlphabet == {"0", "1", "3", "5"}

NativeDims == {<<100, 60>>, <<1, 127>>, <<33, 7>>}

PctValues == {v \o <<"%">> : v \in Strings(PctAlphabet, MaxPctDigits)}

ScaleSizes == PctValues \cup {<<"2", "x", "3">>}

InitScale ==
    \E v \in ScaleSizes, dims \in NativeDims :
        Start(TRUE, "resize", SizePiece(v),
              Tree({APng, BTxt}, SubDir, CJpg, DJpeg, dims))

SpecScale == InitScale /\ [][Next]_vars

\* ============================================================== properties
\* what the command line says, read off the raw option string

RECURSIVE Count(_, _)
Count(s, c) ==
    IF s = <<>> THEN 0 ELSE (IF Head(s) = c THEN 1 ELSE 0) + Count(Tail(s), c)

\* a piece with exactly one '=', neither first nor last
WellFormedPiece(p) ==
    Count(p, "=") = 1 /\ Head(p) # "=" /\ p[Len(p)] # "="

EqPos(p) == CHOOSE i \in 1..Len(p) : p[i] = "="

PieceKey(p) == SubSeq(p, 1, EqPos(p) - 1)

PieceValue(p) == SubSeq(p, EqPos(p) + 1, Len(p))

\* the last piece of ps with the given key, 0 when there is none
RECURSIVE LastWithKey(_, _, _)
LastWithKey(keys, key, i) ==
    IF i = 0 THEN 0 ELSE IF keys[i] = key THEN i ELSE LastWithKey(keys, key, i - 1)

\* the comma-separated pieces of an option string o, whether all are
\* well formed and, if so, their keys and values and what they give for size
\* and filter (the last occurrence of a key counts)
CommandLine(o) ==
    LET ps   == Split(o, ",")
        wf   == \A i \in 1..Len(ps) : WellFormedPiece(ps[i])
        keys == [i \in 1..Len(ps) |-> IF wf THEN PieceKey(ps[i]) ELSE <<>>]
        vals == [i \in 1..Len(ps) |-> IF wf THEN PieceValue(ps[i]) ELSE <<>>]
        si   == LastWithKey(keys, KeySize, Len(ps))
        fi   == LastWithKey(keys, KeyFilter, Len(ps))
    IN  [pieces |-> ps, wellFormed |-> wf, keys |-> keys, values |-> vals,
         hasSize |-> wf /\ si > 0, size |-> IF wf /\ si > 0 THEN vals[si] ELSE <<>>,
         hasFilter |-> wf /\ fi > 0, filter |-> IF wf /\ fi > 0 THEN vals[fi] ELSE <<>>]

AllDigits(s) == s # <<>> /\ \A i \in 1..Len(s) : IsDigit(s[i])

RECURSIVE StripZeros(_)
StripZeros(s) ==
    IF Len(s) > 1 /\ Head(s) = "0" THEN StripZeros(Tail(s)) ELSE s

RECURSIVE LexLeq(_, _)
LexLeq(s, t) ==
    \/ s = <<>>
    \/ DigitVal(Head(s)) < DigitVal(Head(t))
    \/ Head(s) = Head(t) /\ LexLeq(Tail(s), Tail(t))

U32MaxDigits == <<"4", "2", "9", "4", "9", "6", "7", "2", "9", "5">>

\* a decimal numeral of a positive integer below 2^32
PositiveU32(s) ==
    /\ AllDigits(s)
    /\ StripZeros(s) # <<"0">>
    /\ \/ Len(StripZeros(s)) < 10
       \/ Len(StripZeros(s)) = 10 /\ LexLeq(StripZeros(s), U32MaxDigits)

\* a decimal numeral of a positive integer, with or without a '+'
PositiveInt(s) ==
    LET body == IF s # <<>> /\ Head(s) = "+" THEN Tail(s) ELSE s
    IN  AllDigits(body) /\ StripZeros(body) # <<"0">>

\* a signed decimal numeral
Numeric(s) ==
    LET body == IF s # <<>> /\ Head(s) \in {"+", "-"} THEN Tail(s) ELSE s
    IN  AllDigits(body)

LeftOfX(v) == SubSeq(v, 1, (CHOOSE i \in 1..Len(v) : v[i] = "x") - 1)

RightOfX(v) == SubSeq(v, (CHOOSE i \in 1..Len(v) : v[i] = "x") + 1, Len(v))

\* "<w>x<h>", two positive integers separated by one 'x'
IsWxH(v) == Count(v, "x") = 1 /\ PositiveInt(LeftOfX(v)) /\ PositiveInt(RightOfX(v))

\* "<n>%", a numeric value followed by '%'
IsPercent(v) == EndsWith(v, "%") /\ Numeric(StripSuffix(v))

\* decimal numeral of a u32 held in limbs
RECURSIVE FormatU32(_)
FormatU32(v) ==
    LET t == (v.hi % 10) * Limb + v.lo
        q == [hi |-> v.hi \div 10, lo |-> t \div 10]
    IN  IF q = U32Zero THEN <<Digits[(t % 10) + 1]>>
        ELSE Append(FormatU32(q), Digits[(t % 10) + 1])

RECURSIVE DecVal(_)
DecVal(s) ==
    IF s = <<>> THEN 0
    ELSE 10 * DecVal(SubSeq(s, 1, Len(s) - 1)) + DigitVal(s[Len(s)])

NatOf(v) == v.hi * Limb + v.lo

IsImageName(name) ==
    \E ext \in {<<"p", "n", "g">>, <<"j", "p", "g">>, <<"j", "p", "e", "g">>} :
        /\ Len(name) > Len(ext) + 1
        /\ SubSeq(name, Len(name) - Len(ext), Len(name)) = <<".">> \o ext

\* the regular files the walk is to resize
ImageFiles == {p \in DOMAIN fs0 : fs0[p].kind = "file" /\ IsImageName(FileName(p))}

CallsOn(p) == {i \in 1..Len(calls) : calls[i].path = p}

ConfigErrors == {"InvalidOption", "MissingSize", "ParseIntError",
                 "ParseFloatError", "IndexOutOfBounds"}

PathOrConfigErrors == ConfigErrors \cup {"NotADirectory"}

Ended == pc \in {"done", "panic"}

\* C1: in a resize run on a directory with well-formed options that give a
\* size, the walk is entered only if the size value is two positive integers
\* separated by one 'x' or a numeric value followed by '%'; with any other
\* size value the run ends in a configuration error, no resize operation is
\* dispatched and no file is overwritten.
C1_OnlyValidSizeResizes ==
    LET c == CommandLine(options)
    IN  (source_is_dir /\ task = "resize" /\ c.hasSize) =>
            /\ (pc \in {"walk", "done"} \/ calls # <<>>)
                   => (IsWxH(c.size) \/ IsPercent(c.size))
            /\ (~IsWxH(c.size) /\ ~IsPercent(c.size)) =>
                   /\ calls = <<>>
                   /\ fs = fs0
                   /\ Ended => (pc = "panic" /\ err \in ConfigErrors)

\* C2: with size "<w>x<h>", w and h positive and below 2^32, resize() selects
\* resize_by_size with exactly (w, h); every call is resize_by_size with
\* (w, h) and the configured filter, resize_by_scale is never called, and a
\* run that completes has made the call for every image file.
C2_AbsoluteSize ==
    LET c == CommandLine(options)
    IN  (source_is_dir /\ task = "resize" /\ c.hasSize
           /\ Count(c.size, "x") = 1
           /\ PositiveU32(LeftOfX(c.size))
           /\ PositiveU32(RightOfX(c.size))) =>
            LET w == StripZeros(LeftOfX(c.size))
                h == StripZeros(RightOfX(c.size))
            IN  /\ err \notin ConfigErrors
                /\ pc \in {"walk", "done"} =>
                       /\ executor = "resize_by_size"
                       /\ FormatU32(size.width) = w
                       /\ FormatU32(size.height) = h
                /\ \A i \in 1..Len(calls) :
                       /\ calls[i].op = "resize_by_size"
                       /\ FormatU32(calls[i].width) = w
                       /\ FormatU32(calls[i].height) = h
                       /\ calls[i].filter = filter
                /\ pc = "done" =>
                       \A p \in ImageFiles :
                           /\ CallsOn(p) # {}
                           /\ fs[p].tag = "resized"
                           /\ FormatU32(fs[p].w) = w
                           /\ FormatU32(fs[p].h) = h

\* a completed absolute-size run at the u32 boundary
C2_Witness ==
    /\ pc = "done"
    /\ options = SizePiece(MaxU32x1)
    /\ Len(calls) >= 2
    /\ size.width = U32Max
    /\ size.height = U32(1)

\* the precondition of C3: a resize run on a directory whose size is "<n>%",
\* n a non-negative integer numeral
PercentRun(c) ==
    /\ source_is_dir
    /\ task = "resize"
    /\ c.hasSize
    /\ EndsWith(c.size, "%")
    /\ AllDigits(StripSuffix(c.size))

\* what C3 says of a run with percentage n, but for the dimensions
ScaleModeSelected(n) ==
    /\ err \notin ConfigErrors
    /\ pc \in {"walk", "done"} =>
           /\ executor = "resize_by_scale"
           \* size.scale is n / 100 to within half a unit of its last place
           /\ size.scale.neg = FALSE
           /\ LET m == size.scale.m
                  e == size.scale.e
                  d == IF e <= 0 THEN 100 * m - n * Pow2(-e)
                       ELSE 100 * m * Pow2(e) - n
                  u == IF e <= 0 THEN 50 ELSE 50 * Pow2(e)
              IN  -u <= d /\ d <= u
    /\ \A i \in 1..Len(calls) :
           /\ calls[i].op = "resize_by_scale"
           /\ calls[i].outcome = "ok" =>
                  /\ fs[calls[i].path].tag = "resized"
                  /\ fs[calls[i].path].w = calls[i].width
                  /\ fs[calls[i].path].h = calls[i].height
    /\ pc = "done" => \A p \in ImageFiles : CallsOn(p) # {}

\* C3 as stated: with size "<n>%" every call is resize_by_scale, and a file of
\* native dimensions (W, H) is resized to (floor(W * n / 100),
\* floor(H * n / 100)) and overwritten at the same path.
C3_ExactFloor ==
    LET c == CommandLine(options)
    IN  PercentRun(c) =>
            LET n == DecVal(StripSuffix(c.size))
            IN  /\ ScaleModeSelected(n)
                /\ \A i \in 1..Len(calls) :
                       /\ NatOf(calls[i].width)
                             = (NatOf(fs0[calls[i].path].w) * n) \div 100
                       /\ NatOf(calls[i].height)
                             = (NatOf(fs0[calls[i].path].h) * n) \div 100

\* x is floor(d * n / 100), or one less where d * n / 100 is a whole number
NearFloor(x, d, n) ==
    LET exact == (d * n) \div 100
    IN  \/ x = exact
        \/ (d * n) % 100 = 0 /\ x = exact - 1

\* C3, amended: with size "<n>%" every call is resize_by_scale with scale the
\* single-precision n / 100, and a file of native dimensions (W, H) is resized
\* to the truncated single-precision products and overwritten at the same
\* path; for whole n and results below 65536 these are floor(W * n / 100) and
\* floor(H * n / 100), or one less where that quotient is a whole number.
C3_SinglePrecision ==
    LET c == CommandLine(options)
    IN  PercentRun(c) =>
            LET n == DecVal(StripSuffix(c.size))
            IN  /\ ScaleModeSelected(n)
                /\ \A i \in 1..Len(calls) :
                       /\ NearFloor(NatOf(calls[i].width),
                                    NatOf(fs0[calls[i].path].w), n)
                       /\ NearFloor(NatOf(calls[i].height),
                                    NatOf(fs0[calls[i].path].h), n)

\* a completed 53% run over 100 x 60 images: 52 x 31, not 53 x 31
C3_Witness ==
    /\ pc = "done"
    /\ options = SizePiece(<<"5", "3", "%">>)
    /\ Len(calls) >= 2
    /\ \A i \in 1..Len(calls) :
           /\ fs0[calls[i].path].w = U32(100)
           /\ fs0[calls[i].path].h = U32(60)
           /\ fs[calls[i].path].w = U32(52)
           /\ fs[calls[i].path].h = U32(31)

\* C4: a resize run that completes has called the resize operation exactly
\* once on every regular file named *.png, *.jpg or *.jpeg (lower case) at any
\* depth; no run calls it on anything else, and files with another or no
\* extension and directories stay as they were.
C4_ExactlyTheImageFiles ==
    LET images == ImageFiles
    IN  /\ \A i \in 1..Len(calls) : calls[i].path \in images
        /\ \A p \in DOMAIN fs0 : Cardinality(CallsOn(p)) <= 1
        /\ \A p \in DOMAIN fs0 \ images : fs[p] = fs0[p]
        /\ (pc = "done" /\ task = "resize") =>
               \A p \in images :
                   Cardinality(CallsOn(p)) = 1 /\ fs[p].tag = "resized"

\* a completed run over a tree holding e.PNG, a file two levels down and a
\* directory named g.png
C4_Witness ==
    /\ pc = "done"
    /\ <<EPNG>> \in DOMAIN fs0
    /\ <<DirPng, SubDir, APng>> \in DOMAIN fs0
    /\ fs[<<DirPng, SubDir, APng>>].tag = "resized"
    /\ fs[<<EPNG>>].tag = "orig"
    /\ Len(calls) >= 2

\* C5: a resize run on a directory with well-formed options that give no size
\* ends in the missing-size panic; no entry is visited, no file is decoded or
\* overwritten.
C5_MissingSize ==
    LET c == CommandLine(options)
    IN  (source_is_dir /\ task = "resize" /\ c.wellFormed /\ ~c.hasSize) =>
            /\ stack = <<>>
            /\ calls = <<>>
            /\ fs = fs0
            /\ pc \in {"main", "options", "resize", "panic"}
            /\ pc = "panic" => err = "MissingSize"

\* the panic, with a filter given
C5_Witness ==
    /\ pc = "panic"
    /\ err = "MissingSize"
    /\ KeyFilter \in DOMAIN options_map
    /\ CommandLine(options).hasFilter

\* C6: on a directory source, an option string with a piece that is not
\* key=value with both parts non-empty ends the run in the invalid-option
\* panic whatever the task; otherwise every piece the loop has passed is in
\* options_map under its key (with the value of the latest such piece).
C6_MalformedOption ==
    LET c == CommandLine(options)
    IN  source_is_dir =>
            /\ ~c.wellFormed =>
                   /\ pc \in {"main", "options", "panic"}
                   /\ pc = "panic" => err = "InvalidOption"
                   /\ calls = <<>>
            /\ c.wellFormed =>
                   /\ err # "InvalidOption"
                   /\ pc \notin {"main", "options"} => opt_i = Len(c.pieces) + 1
                   /\ \A i \in 1..(opt_i - 1) :
                          /\ c.keys[i] \in DOMAIN options_map
                          /\ (\A j \in (i + 1)..(opt_i - 1) : c.keys[j] # c.keys[i])
                                => options_map[c.keys[i]] = c.values[i]

\* the panic on a second piece with a value but no key, for a task that is
\* not resize
C6_Witness ==
    /\ pc = "panic"
    /\ err = "InvalidOption"
    /\ task = "convert"
    /\ opt_i = 2
    /\ Len(Pieces) = 2
    /\ Pieces[2] = <<"=", "b">>

\* C7: a call that fails is the last call of the run and the run has
\* panicked with the image error; every earlier call succeeded and its file
\* holds the resized content, and the files not called are as they were.
C7_FailFast ==
    /\ \A i \in 1..Len(calls) :
           IF calls[i].outcome = "ok"
           THEN fs[calls[i].path] =
                    [kind |-> "file", tag |-> "resized", w |-> calls[i].width,
                     h |-> calls[i].height, filter |-> calls[i].filter]
           ELSE i = Len(calls) /\ pc = "panic" /\ err = "ImageError"
    /\ err = "ImageError" => (calls # <<>> /\ calls[Len(calls)].outcome # "ok")
    /\ \A p \in DOMAIN fs0 : CallsOn(p) = {} => fs[p] = fs0[p]

\* a failure on the second call with an image file still to come
C7_Witness ==
    /\ err = "ImageError"
    /\ Len(calls) = 2
    /\ fs[calls[1].path].tag = "resized"
    /\ \E p \in ImageFiles : CallsOn(p) = {}

\* C8: the walk is entered, a file decoded or overwritten, only after the
\* source has been checked to be a directory, every piece has been found well
\* formed and the size has been found and parsed; a source that is not a
\* directory panics before any option is parsed; a run that ends in a path or
\* configuration error has overwritten nothing.
C8_ValidationFirst ==
    LET c == CommandLine(options)
    IN  /\ (pc = "walk" \/ stack # <<>> \/ calls # <<>> \/ fs # fs0) =>
               /\ dir_checked
               /\ source_is_dir
               /\ c.wellFormed
               /\ opt_i = Len(c.pieces) + 1
               /\ c.hasSize
               /\ KeySize \in DOMAIN options_map
               /\ executor # "none"
        /\ (~source_is_dir /\ pc # "main") =>
               /\ pc = "panic"
               /\ err = "NotADirectory"
               /\ opt_i = 1
               /\ options_map = EmptyMap
        /\ err \in PathOrConfigErrors =>
               (fs = fs0 /\ calls = <<>> /\ stack = <<>>)

\* a file given as source with a malformed option string
C8_Witness ==
    /\ ~source_is_dir
    /\ pc = "panic"
    /\ ~CommandLine(options).wellFormed
    /\ task = "resize"

\* the filter table of the documentation, in FilterType names
\* (Cubic is CatmullRom, Linear is Triangle)
DocumentedFilter(c) ==
    IF ~c.hasFilter THEN "CatmullRom"
    ELSE IF c.filter = VNearest THEN "Nearest"
    ELSE IF c.filter = VLinear THEN "Triangle"
    ELSE IF c.filter = VGaussian THEN "Gaussian"
    ELSE IF c.filter = VLanczos3 THEN "Lanczos3"
    ELSE "CatmullRom"

\* C9: the filter handed to the walk and to every call is the documented one
\* for the filter value, Cubic for an unknown value or none; no filter value
\* makes a run with a valid size fail before the walk.
C9_FilterSelection ==
    LET c == CommandLine(options)
        f == DocumentedFilter(c)
    IN  (source_is_dir /\ task = "resize" /\ c.wellFormed) =>
            /\ pc \in {"walk", "done"} => filter = f
            /\ \A i \in 1..Len(calls) : calls[i].filter = f
            /\ (c.hasSize /\ c.size \in {<<"2", "x", "3">>, <<"5", "0", "%">>})
                   => err \notin ConfigErrors

\* a completed run with filter=linear
C9_Witness ==
    /\ pc = "done"
    /\ CommandLine(options).filter = VLinear
    /\ Len(calls) >= 2
    /\ calls[1].filter = "Triangle"

\* C10: with a task other than resize, a directory source and well-formed
\* options, nothing is dispatched, decoded or overwritten and the run ends
\* without error, whatever the size option.
C10_OtherTaskNoOp ==
    LET c == CommandLine(options)
    IN  (source_is_dir /\ task # "resize" /\ c.wellFormed) =>
            /\ err = "none"
            /\ pc \in {"main", "options", "done"}
            /\ executor = "none"
            /\ stack = <<>>
            /\ calls = <<>>
            /\ fs = fs0

\* the run has ended for a task that is not resize and a size that does not
\* parse
C10_Witness ==
    /\ pc = "done"
    /\ task = "convert"
    /\ source_is_dir
    /\ CommandLine(options).size = <<"a", "b">>

====
